---- MODULE Spec2Model ----
(***************************************************************************)
(* A model of @tgify/i18n: the resource tree store (I18n), the locale      *)
(* resolution context (I18nContext), the template compiler and pluralize.  *)
(*                                                                         *)
(* Strings that the code inspects character by character (locale tags,     *)
(* template sources) are sequences of one-character strings.  A dotted     *)
(* resource key is the sequence of its segments (the result of             *)
(* split(".")); the empty key "" is the empty sequence.                    *)
(*                                                                         *)
(* A JavaScript value is a record [tag, v]:                                *)
(*   "undef" / "null"   undefined, null                                    *)
(*   "num" / "bool"     a number, a boolean                                *)
(*   "str"              a string (a template source), v its characters     *)
(*   "tree"             a plain object, v a function from its keys         *)
(*   "seq"              an array, v the sequence of its elements           *)
(*   "fn"               a function: a renderer, v = [kind, src]            *)
(*                                                                         *)
(* Template data is a function from entry names to values: a string, the   *)
(* function pluralize, or a reference ("@from") to an object of `objects`, *)
(* the objects callers put into template data, each a function from its    *)
(* field names to strings.  `warned` and `warnings` are the module-level   *)
(* set of pluralize and the lines it wrote with console.warn.              *)
(***************************************************************************)
EXTENDS Integers, Sequences, FiniteSets, TLC

VARIABLES config, heap, repository, keysCache, ctxs, nLoads, last,
          objects, warned, warnings

vars == <<config, heap, repository, keysCache, ctxs, nLoads, last,
          objects, warned, warnings>>

-----------------------------------------------------------------------------
(* Bounds of the model.                                                    *)

MaxLoads == 2
MaxCtx == 1
MaxRepos == 2
MaxLen == 3
MaxCount == 25
MaxArabic == 210

-----------------------------------------------------------------------------
(* JavaScript values.                                                      *)

Undef == [tag |-> "undef", v |-> 0]
Null == [tag |-> "null", v |-> 0]
Num(n) == [tag |-> "num", v |-> n]
Bool(b) == [tag |-> "bool", v |-> b]
Str(s) == [tag |-> "str", v |-> s]
Tree(m) == [tag |-> "tree", v |-> m]
Arr(items) == [tag |-> "seq", v |-> items]
Fn(kind, src) == [tag |-> "fn", v |-> [kind |-> kind, src |-> src]]

EmptyMap == [k \in {} |-> Undef]

\* !!v
Truthy(x) ==
  CASE x.tag \in {"undef", "null"} -> FALSE
    [] x.tag = "num" -> x.v # 0
    [] x.tag = "bool" -> x.v
    [] x.tag = "str" -> x.v # << >>
    [] OTHER -> TRUE

\* v == null
Nullish(x) == x.tag \in {"undef", "null"}

\* a ?? b
Coalesce(a, b) == IF Nullish(a) THEN b ELSE a

isPlainObject(x) == x.tag = "tree"

-----------------------------------------------------------------------------
(* Locale tags.                                                            *)

toLowerCase1(c) ==
  CASE c = "E" -> "e"
    [] c = "N" -> "n"
    [] c = "U" -> "u"
    [] c = "S" -> "s"
    [] c = "R" -> "r"
    [] c = "P" -> "p"
    [] c = "T" -> "t"
    [] c = "B" -> "b"
    [] c = "A" -> "a"
    [] c = "C" -> "c"
    [] c = "F" -> "f"
    [] c = "X" -> "x"
    [] OTHER -> c

toLowerCase(s) == [i \in 1..Len(s) |-> toLowerCase1(s[i])]

RECURSIVE trimStart(_)
trimStart(s) ==
  IF s # << >> /\ Head(s) = " " THEN trimStart(Tail(s)) ELSE s

RECURSIVE trimEnd(_)
trimEnd(s) ==
  IF s # << >> /\ s[Len(s)] = " " THEN trimEnd(SubSeq(s, 1, Len(s) - 1)) ELSE s

trim(s) == trimEnd(trimStart(s))

\* replace(/_/g, "-")
replaceUnderscores(s) == [i \in 1..Len(s) |-> IF s[i] = "_" THEN "-" ELSE s[i]]

\* s.split("-")[0]
RECURSIVE splitHyphenFirst(_)
splitHyphenFirst(s) ==
  IF s = << >> \/ Head(s) = "-" THEN << >>
  ELSE <<Head(s)>> \o splitHyphenFirst(Tail(s))

normalizeLocale(code) ==
  LET full == replaceUnderscores(toLowerCase(trim(code)))
  IN [full |-> full, base |-> splitHyphenFirst(full)]

-----------------------------------------------------------------------------
(* The template compiler.                                                  *)
(* A template source is a sequence of tokens: ordinary characters, the     *)
(* backtick, the backslash, and embedded expression spans ("${" ... "}"),  *)
(* each one token.                                                         *)

ExprTokens ==
  { "${name}", "${boom()}", "${name = 'X'}", "${from.language_code}",
    "${from.language_code = 'X'}", "${(() => { for (;;); })()}",
    "${(() => { throw null })()}" }

\* value.includes("${")
includesExpr(s) == \E i \in 1..Len(s) : s[i] \in ExprTokens

\* The backtick and the backslash, as tokens.
Backtick == "BACKTICK"
Backslash == "\\"

\* template.replace(regex, backslash + backtick), between the two wrapping
\* backticks
RECURSIVE escape(_)
escape(s) ==
  IF s = << >> THEN << >>
  ELSE (IF Head(s) = Backtick THEN <<Backslash, Backtick>> ELSE <<Head(s)>>) \o escape(Tail(s))

\* new vm.Script on the template literal whose body is s: whether it parses
\* and the parts of the literal.  A backslash takes the next token literally
\* (and vanishes); at the end of the body it escapes the closing backtick.
\* An unescaped backtick closes the literal early, which no remainder over
\* these tokens turns into a script.
RECURSIVE scriptParts(_)
scriptParts(s) ==
  IF s = << >> THEN [ok |-> TRUE, parts |-> << >>]
  ELSE IF Head(s) = Backslash THEN
    IF Len(s) = 1 THEN [ok |-> FALSE, parts |-> << >>]
    ELSE LET rest == scriptParts(Tail(Tail(s)))
         IN [ok |-> rest.ok,
             parts |-> <<[lit |-> TRUE, tok |-> s[2]]>> \o rest.parts]
  ELSE IF Head(s) = Backtick THEN [ok |-> FALSE, parts |-> << >>]
  ELSE LET rest == scriptParts(Tail(s))
       IN [ok |-> rest.ok,
           parts |-> <<[lit |-> (Head(s) \notin ExprTokens), tok |-> Head(s)]>>
                     \o rest.parts]

\* compile(template): new vm.Script(escape(template)) throws a SyntaxError,
\* or the renderer is returned
compileThrows(s) == ~scriptParts(escape(s)).ok

compile(s) == Fn("script", s)

\* The execution-time budget of one render, in milliseconds
timeout == 500

\* The time an embedded expression takes: the endless loop outlasts every
\* budget, the other expressions take no time worth counting
cost(tok) == IF tok = "${(() => { for (;;); })()}" THEN timeout + 1 ELSE 0

\* One embedded expression evaluated in the sandbox, whose global object is
\* context (the fresh object made by Object.assign) and which reaches the
\* objects objs through the references context holds: the value, or the
\* error thrown, and context and objs afterwards.
\*   ${name}                        reads the entry name
\*   ${name = 'X'}                  rebinds it on the global object
\*   ${from.language_code}          reads a field of the object from
\*   ${from.language_code = 'X'}    writes that field
\*   ${boom()}                      calls a function no context defines
\*   ${(() => { throw null })()}    throws the value null
evalExpr(tok, context, objs) ==
  LET thrown(msg) == [ok |-> FALSE, out |-> << >>, msg |-> msg,
                      context |-> context, objs |-> objs]
  IN CASE cost(tok) > timeout -> thrown("Error: Script execution timed out")
       [] tok = "${(() => { throw null })()}" -> thrown("null")
       [] tok = "${name}" ->
            IF "name" \in DOMAIN context
            THEN [ok |-> TRUE, out |-> <<context["name"]>>, msg |-> "none",
                  context |-> context, objs |-> objs]
            ELSE thrown("ReferenceError")
       [] tok = "${name = 'X'}" ->
            [ok |-> TRUE, out |-> <<"X">>, msg |-> "none",
             context |-> [k \in DOMAIN context \cup {"name"} |->
                            IF k = "name" THEN "X" ELSE context[k]],
             objs |-> objs]
       [] tok = "${from.language_code}" ->
            IF "from" \in DOMAIN context
            THEN [ok |-> TRUE, out |-> <<objs[context["from"]]["language_code"]>>,
                  msg |-> "none", context |-> context, objs |-> objs]
            ELSE thrown("ReferenceError")
       [] tok = "${from.language_code = 'X'}" ->
            IF "from" \in DOMAIN context
            THEN [ok |-> TRUE, out |-> <<"X">>, msg |-> "none", context |-> context,
                  objs |-> [objs EXCEPT ![context["from"]]["language_code"] = "X"]]
            ELSE thrown("ReferenceError")
       [] OTHER -> thrown("ReferenceError")

\* The parts of the literal evaluated from left to right; what an expression
\* wrote stays written when a later one throws
RECURSIVE runParts(_, _, _)
runParts(parts, context, objs) ==
  IF parts = << >> THEN [ok |-> TRUE, out |-> << >>, msg |-> "none", objs |-> objs]
  ELSE LET p == Head(parts)
           one == IF p.lit
                  THEN [ok |-> TRUE, out |-> <<p.tok>>, msg |-> "none",
                        context |-> context, objs |-> objs]
                  ELSE evalExpr(p.tok, context, objs)
           rest == runParts(Tail(parts), one.context, one.objs)
       IN IF ~one.ok
          THEN [ok |-> FALSE, out |-> << >>, msg |-> one.msg, objs |-> one.objs]
          ELSE IF ~rest.ok THEN rest
          ELSE [ok |-> TRUE, out |-> one.out \o rest.out, msg |-> "none",
                objs |-> rest.objs]

\* The renderer applied to a data context: the rendered string, or the
\* Error thrown from the catch of compile's closure with the description of
\* what it caught, and the objects afterwards.  The script runs on
\* Object.assign({}, defaultContext, context), a copy of the entries.  When
\* the value caught is null, err.toString() in the catch throws a TypeError
\* of its own, which is what the caller gets.
callRenderer(fn, context, objs) ==
  IF fn.v.kind = "lit"
  THEN [ok |-> TRUE, out |-> fn.v.src, err |-> "none", msg |-> "none", objs |-> objs]
  ELSE LET r == runParts(scriptParts(escape(fn.v.src)).parts, context, objs)
       IN IF r.ok
          THEN [ok |-> TRUE, out |-> r.out, err |-> "none", msg |-> "none",
                objs |-> r.objs]
          ELSE IF r.msg = "null"
          THEN [ok |-> FALSE, out |-> << >>, err |-> "catch",
                msg |-> "TypeError: Cannot read properties of null", objs |-> r.objs]
          ELSE [ok |-> FALSE, out |-> << >>, err |-> "exec", msg |-> r.msg,
                objs |-> r.objs]

-----------------------------------------------------------------------------
(* The resource tree store: pure helpers.                                  *)
(* A plain object is a function from its keys; the order of its keys is    *)
(* not modelled, so a list of keys is the set of its elements.             *)

RECURSIVE compileTemplatesThrows(_)
compileTemplatesThrows(value) ==
  CASE value.tag = "seq" ->
         \E i \in 1..Len(value.v) : compileTemplatesThrows(value.v[i])
    [] value.tag = "tree" ->
         \E k \in DOMAIN value.v : compileTemplatesThrows(value.v[k])
    [] value.tag = "str" -> includesExpr(value.v) /\ compileThrows(value.v)
    [] OTHER -> FALSE

RECURSIVE compileTemplates(_)
compileTemplates(value) ==
  CASE Nullish(value) -> value
    [] value.tag = "seq" ->
         Arr([i \in 1..Len(value.v) |-> compileTemplates(value.v[i])])
    [] value.tag = "tree" ->
         Tree([k \in DOMAIN value.v |-> compileTemplates(value.v[k])])
    [] value.tag = "str" ->
         IF includesExpr(value.v) THEN compile(value.v) ELSE Fn("lit", value.v)
    [] OTHER -> value

\* deepMerge without its recursion: the incoming value always replaces
deepMergeShallow(a, b) ==
  [k \in DOMAIN a \cup DOMAIN b |-> IF k \in DOMAIN b THEN b[k] ELSE a[k]]

\* a and b are the key maps of two plain objects
RECURSIVE deepMerge(_, _)
deepMerge(a, b) ==
  [k \in DOMAIN a \cup DOMAIN b |->
     IF k \notin DOMAIN b THEN a[k]
     ELSE IF k \in DOMAIN a /\ isPlainObject(a[k]) /\ isPlainObject(b[k])
          THEN Tree(deepMerge(a[k].v, b[k].v))
          ELSE b[k]]

\* The dotted paths (sequences of segments) of the values of root that are
\* not plain objects.  root is a plain object at every call the store makes.
RECURSIVE getTemplateKeysRecursive(_, _)
getTemplateKeysRecursive(root, prefix) ==
  IF root.tag # "tree" THEN {}
  ELSE UNION { IF isPlainObject(root.v[key])
               THEN getTemplateKeysRecursive(root.v[key], Append(prefix, key))
               ELSE {Append(prefix, key)} : key \in DOMAIN root.v }

-----------------------------------------------------------------------------
(* The locale resolution context: pure helpers.                            *)

\* key in acc, acc[key] for an array: its indices and its length
arrayIndex(key) == CASE key = "0" -> 1 [] key = "1" -> 2 [] OTHER -> 0

\* One step of the reduce in getTemplate
step(acc, key) ==
  CASE acc.tag = "tree" -> IF key \in DOMAIN acc.v THEN acc.v[key] ELSE Undef
    [] acc.tag = "seq" ->
         IF key = "length" THEN Num(Len(acc.v))
         ELSE IF arrayIndex(key) \in 1..Len(acc.v) THEN acc.v[arrayIndex(key)]
         ELSE Undef
    [] OTHER -> Undef

RECURSIVE reduce(_, _)
reduce(acc, keys) ==
  IF keys = << >> THEN acc ELSE reduce(step(acc, Head(keys)), Tail(keys))

\* repo is the key map of a repository object
getTemplate(repo, languageCode, resourceKey) ==
  IF languageCode \notin DOMAIN repo THEN Undef
  ELSE IF resourceKey = << >> THEN repo[languageCode]
  ELSE reduce(repo[languageCode], resourceKey)

\* resourceKey as the string it was split from
RECURSIVE joinDots(_)
joinDots(segs) ==
  IF Len(segs) <= 1 THEN segs
  ELSE <<Head(segs), ".">> \o joinDots(Tail(segs))

\* { ...a, ...b }
spread(a, b) ==
  [k \in DOMAIN a \cup DOMAIN b |-> IF k \in DOMAIN b THEN b[k] ELSE a[k]]

\* The entries of a data context that are functions, and Function.bind
isFunction(v) == v = "pluralize"
bind(v) == "bound pluralize"

\* I18nContext.locale(languageCode) on the context c, reading the repository
\* object repo: the context afterwards
locale(c, cfg, repo, languageCode) ==
  IF languageCode = << >> THEN c
  ELSE LET code == toLowerCase(languageCode)
           shortCode == splitHyphenFirst(code)
       IN IF code \notin DOMAIN repo /\ shortCode \notin DOMAIN repo
          THEN [c EXCEPT !.languageCode = cfg.defaultLanguage,
                         !.shortLanguageCode = splitHyphenFirst(cfg.defaultLanguage)]
          ELSE [c EXCEPT !.languageCode = code, !.shortLanguageCode = shortCode]

\* new I18nContext(repository, config, languageCode, templateData); ref is
\* the repository object the context keeps
newContext(ref, cfg, repo, languageCode, templateData) ==
  LET blank == [repository |-> ref, languageCode |-> << >>,
                shortLanguageCode |-> << >>, templateData |-> EmptyMap]
      resolved == locale(blank, cfg, repo,
                         IF languageCode # << >> THEN languageCode
                         ELSE cfg.defaultLanguage)
  IN [resolved EXCEPT !.templateData = spread(cfg.templateData, templateData)]

\* pickTemplate with the base locale looked up before the full locale
pickTemplateBaseFirst(c, cfg, repo, resourceKey) ==
  LET t1 == Coalesce(getTemplate(repo, c.shortLanguageCode, resourceKey),
                     getTemplate(repo, c.languageCode, resourceKey))
      t2 == IF ~Truthy(t1) /\ cfg.defaultLanguageOnMissing
            THEN getTemplate(repo, cfg.defaultLanguage, resourceKey)
            ELSE t1
  IN IF ~Truthy(t2) /\ cfg.allowMissing
     THEN Fn("lit", joinDots(resourceKey))
     ELSE t2

\* The template t picks: full locale ?? base locale, then the default locale,
\* then the synthesized renderer of the raw key
pickTemplate(c, cfg, repo, resourceKey) ==
  LET t1 == Coalesce(getTemplate(repo, c.languageCode, resourceKey),
                     getTemplate(repo, c.shortLanguageCode, resourceKey))
      t2 == IF ~Truthy(t1) /\ cfg.defaultLanguageOnMissing
            THEN getTemplate(repo, cfg.defaultLanguage, resourceKey)
            ELSE t1
  IN IF ~Truthy(t2) /\ cfg.allowMissing
     THEN Fn("lit", joinDots(resourceKey))
     ELSE t2

\* dataContext with the per-call data under the context's template data
dataContextCallUnder(c, templateData) ==
  LET merged == spread(templateData, c.templateData)
  IN [k \in DOMAIN merged |->
        IF isFunction(merged[k]) THEN bind(merged[k]) ELSE merged[k]]

\* The data context t hands to the renderer: the context's template data,
\* the per-call data over it, every function entry bound to the context
dataContext(c, templateData) ==
  LET merged == spread(c.templateData, templateData)
  IN [k \in DOMAIN merged |->
        IF isFunction(merged[k]) THEN bind(merged[k]) ELSE merged[k]]

\* I18nContext.t(resourceKey, templateData): the string returned or the
\* error thrown, and the objects afterwards
t(c, cfg, repo, resourceKey, templateData, objs) ==
  LET template == pickTemplate(c, cfg, repo, resourceKey)
  IN IF template.tag # "fn"
     THEN [ok |-> FALSE, out |-> << >>, err |-> "notfound", msg |-> "none",
           locale |-> c.languageCode, key |-> resourceKey, objs |-> objs]
     ELSE LET r == callRenderer(template, dataContext(c, templateData), objs)
          IN [ok |-> r.ok, out |-> r.out, err |-> r.err, msg |-> r.msg,
              locale |-> c.languageCode, key |-> resourceKey, objs |-> r.objs]

-----------------------------------------------------------------------------
(* pluralize.                                                              *)
(* A form is [fn, text]: a string, or a function of the count.             *)

Word(s) == [fn |-> FALSE, text |-> s]
FormFn == [fn |-> TRUE, text |-> "f"]

\* pluralRules[ruleKey](n), n a non-negative integer
pluralRules(ruleKey, n) ==
  CASE ruleKey = "english" -> IF n # 1 THEN 1 ELSE 0
    [] ruleKey = "french" -> IF n > 1 THEN 1 ELSE 0
    [] ruleKey = "russian" ->
         IF n % 10 = 1 /\ n % 100 # 11 THEN 0
         ELSE IF n % 10 >= 2 /\ n % 10 <= 4 /\ (n % 100 < 10 \/ n % 100 >= 20)
              THEN 1 ELSE 2
    [] ruleKey = "czech" -> IF n = 1 THEN 0 ELSE IF n >= 2 /\ n <= 4 THEN 1 ELSE 2
    [] ruleKey = "polish" ->
         IF n = 1 THEN 0
         ELSE IF n % 10 >= 2 /\ n % 10 <= 4 /\ (n % 100 < 10 \/ n % 100 >= 20)
              THEN 1 ELSE 2
    [] ruleKey = "icelandic" -> IF n % 10 # 1 \/ n % 100 = 11 THEN 1 ELSE 0
    [] ruleKey = "chinese" -> 0
    [] ruleKey = "arabic" ->
         IF n >= 0 /\ n < 3 THEN n
         ELSE IF n % 100 <= 10 THEN 3
         ELSE IF n >= 11 /\ n % 100 <= 99 THEN 4
         ELSE 5

normalizeLang(code) == replaceUnderscores(toLowerCase(trim(code)))

Lang(a, b) == <<a, b>>
RuleKeys ==
  {"english", "chinese", "french", "russian", "czech", "icelandic", "polish", "arabic"}

mapping ==
  [ruleKey \in RuleKeys |->
     CASE ruleKey = "english" ->
            { Lang("d", "a"), Lang("d", "e"), Lang("e", "n"), Lang("e", "s"),
              Lang("f", "i"), Lang("e", "l"), Lang("h", "e"), Lang("h", "u"),
              Lang("i", "t"), Lang("n", "l"), Lang("n", "o"), Lang("p", "t"),
              Lang("s", "v"), Lang("b", "r") }
       [] ruleKey = "chinese" ->
            { Lang("f", "a"), Lang("i", "d"), Lang("j", "a"), Lang("k", "o"),
              Lang("l", "o"), Lang("m", "s"), Lang("t", "h"), Lang("t", "r"),
              Lang("z", "h"), Lang("j", "p") }
       [] ruleKey = "french" ->
            { Lang("f", "r"), Lang("t", "l"), <<"p", "t", "-", "b", "r">> }
       [] ruleKey = "russian" ->
            { Lang("h", "r"), Lang("r", "u"), Lang("u", "k"), Lang("u", "z") }
       [] ruleKey = "czech" -> { Lang("c", "s"), Lang("s", "k") }
       [] ruleKey = "icelandic" -> { Lang("i", "s") }
       [] ruleKey = "polish" -> { Lang("p", "l") }
       [] ruleKey = "arabic" -> { Lang("a", "r") }]

\* The table the module fills from mapping when it is loaded
langToRuleTable ==
  [tag \in UNION { mapping[ruleKey] : ruleKey \in RuleKeys } |->
     CHOOSE ruleKey \in RuleKeys : tag \in mapping[ruleKey]]

\* langToRule[tag]; "none" when the table has no such key
langToRule(tag) ==
  IF tag \in DOMAIN langToRuleTable THEN langToRuleTable[tag] ELSE "none"

\* langToRule[norm] ?? langToRule[base] ?? "english"
ruleKeyOf(norm, base) ==
  IF langToRule(norm) # "none" THEN langToRule(norm)
  ELSE IF langToRule(base) # "none" THEN langToRule(base)
  ELSE "english"

\* pluralizeWarns without the test of the warned set
pluralizeWarnsEveryTime(norm, base, warnedSet) ==
  langToRule(norm) = "none" /\ langToRule(base) = "none"

\* Whether pluralize writes its warning, warnedSet being the tags warned of
pluralizeWarns(norm, base, warnedSet) ==
  (langToRule(norm) = "none" /\ langToRule(base) = "none") /\ norm \notin warnedSet

\* The string pluralize(number, forms, langCode) returns, as its pieces
pluralize(number, forms, langCode) ==
  LET norm == normalizeLang(langCode)
      base == splitHyphenFirst(norm)
      idx == pluralRules(ruleKeyOf(norm, base), number)
      none == [fn |-> FALSE, text |-> ""]
      form == IF idx + 1 \in 1..Len(forms) THEN forms[idx + 1]
              ELSE IF forms # << >> THEN forms[Len(forms)]
              ELSE none
  IN IF ~form.fn /\ form.text = "" THEN <<number>>
     ELSE IF form.fn THEN <<form.text, "(", number, ")">>
     ELSE <<number, " ", form.text>>

-----------------------------------------------------------------------------
(* The I18n instance.                                                      *)

en == <<"e", "n">>

\* new I18n(options), before any directory is loaded: the defaults, then
\* the options spread over them
I18nConfig(options) ==
  [defaultLanguage |->
     IF "defaultLanguage" \in DOMAIN options THEN options["defaultLanguage"] ELSE en,
   allowMissing |->
     IF "allowMissing" \in DOMAIN options THEN options["allowMissing"] ELSE TRUE,
   defaultLanguageOnMissing |->
     "defaultLanguageOnMissing" \in DOMAIN options
       /\ options["defaultLanguageOnMissing"],
   templateData |->
     IF "templateData" \in DOMAIN options THEN options["templateData"]
     ELSE [k \in {"pluralize"} |-> "pluralize"]]

\* invalidate that leaves the cache as it is
invalidateNothing(cache, language) == cache

\* this.keysCache after invalidate(language)
invalidate(cache, language) ==
  IF language = << >> THEN EmptyMap
  ELSE [l \in DOMAIN cache \ {toLowerCase(language)} |-> cache[l]]

loadLocaleThrows(i18Data) ==
  compileTemplatesThrows(i18Data) \/ ~isPlainObject(compileTemplates(i18Data))

\* The repository object repo after a loadLocale that does not throw
loadLocaleRepo(repo, languageCode, i18Data) ==
  LET language == normalizeLocale(languageCode).full
      old == IF language \in DOMAIN repo THEN repo[language].v ELSE EmptyMap
      merged == Tree(deepMerge(old, compileTemplates(i18Data).v))
  IN [l \in DOMAIN repo \cup {language} |->
        IF l = language THEN merged ELSE repo[l]]

\* loadLocale that clears the cached key list before it validates the data
loadLocaleCacheEager(cache, languageCode, i18Data) ==
  invalidate(cache, normalizeLocale(languageCode).full)

\* this.keysCache after loadLocale(languageCode, i18Data): the throw comes
\* before the merge and before invalidate
loadLocaleCache(cache, languageCode, i18Data) ==
  IF loadLocaleThrows(i18Data) THEN cache
  ELSE invalidate(cache, normalizeLocale(languageCode).full)

\* loadLocales(directory): the files of the directory, loaded in turn; the
\* first file that throws ends the constructor
RECURSIVE loadLocales(_, _)
loadLocales(repo, files) ==
  IF files = << >> THEN repo
  ELSE loadLocales(loadLocaleRepo(repo, Head(files).name, Head(files).data),
                   Tail(files))

-----------------------------------------------------------------------------
(* Inputs.                                                                 *)

enus == <<"e", "n", "-", "u", "s">>
en_US == <<"e", "n", "_", "U", "S">>
EN_US_spaced == <<" ", "E", "N", "-", "U", "S", " ">>
ru == <<"r", "u">>
NoTag == << >>

Obj1(k1, v1) == Tree([k \in {k1} |-> v1])
Obj2(k1, v1, k2, v2) == Tree([k \in {k1, k2} |-> IF k = k1 THEN v1 ELSE v2])

NoData == EmptyMap
NoObjects == [r \in {} |-> EmptyMap]
Name(v) == [k \in {"name"} |-> v]

\* Raw locale data the store is given
StoreTags == {en, en_US, EN_US_spaced}
StoreData ==
  { Obj2("a", Str(<<"H">>), "m", Obj1("x", Str(<<"H", "${name}">>))),
    Obj2("a", Str(<<"i">>), "m", Obj1("y", Str(<<"i">>))),
    Obj1("m", Str(<<"i">>)),
    Obj1("a", Obj1("x", Str(<<"i">>))),
    Obj2("n", Num(5), "l", Arr(<<Str(<<"H">>), Null, Bool(FALSE)>>)),
    Obj1("a", Str(<<"${name}", Backslash>>)),
    Str(<<"H">>), Null, Arr(<<Str(<<"H">>)>>), Num(5), Undef }

\* Raw locale data for the coverage queries
ProgressData ==
  { Obj2("a", Str(<<"H">>), "m", Obj1("x", Str(<<"H", "${name}">>))),
    Obj2("a", Str(<<"i">>), "m", Obj1("y", Str(<<"i">>))),
    Obj1("m", Str(<<"i">>)) }

\* The locale files a directory may hold, and the options of new I18n
Directories ==
  { << >>,
    << [name |-> en,
        data |-> Obj2("g", Str(<<"H">>), "m", Str(<<"i", "${name}">>))],
       [name |-> en_US,
        data |-> Obj2("g", Str(<<"U">>), "m", Obj1("t", Str(<<"${boom()}">>)))] >> }

Options ==
  { [k \in D |-> CASE k = "defaultLanguage" -> ru
                   [] k = "allowMissing" -> FALSE
                   [] k = "defaultLanguageOnMissing" -> TRUE]
    : D \in SUBSET {"allowMissing", "defaultLanguageOnMissing"} }

CtxTags == {enus, en_US, ru, NoTag}
CtxData == {NoData}
CallData == {NoData, Name("Ann")}
LoadTags == {ru}
LoadData == { Obj2("g", Str(<<"R">>), "m", Obj1("t", Str(<<"i">>))) }
ResetTags == {enus}
ResourceKeys == { <<"g">>, <<"m">>, <<"m", "t">>, <<"zz">> }
SharedTags == {en_US, ru}

\* Templates that read and write their data context, the data of the three
\* levels, and the object a context-level entry refers to
RenderDirectory ==
  << [name |-> en,
      data |-> Tree([k \in {"k", "w", "f", "s", "b", "p", "l", "n"} |->
                CASE k = "k" -> Str(<<"H", "${name}">>)
                  [] k = "w" -> Str(<<"${name = 'X'}", "${name}">>)
                  [] k = "f" -> Str(<<"${from.language_code}">>)
                  [] k = "s" -> Str(<<"${from.language_code = 'X'}">>)
                  [] k = "b" -> Str(<<"H", "${boom()}">>)
                  [] k = "p" -> Str(<<"${from.language_code = 'X'}", "${boom()}">>)
                  [] k = "l" -> Str(<<"H", "${(() => { for (;;); })()}">>)
                  [] k = "n" -> Str(<<"${(() => { throw null })()}">>)])] >>
RenderKeys == { <<"k">>, <<"w">>, <<"f">>, <<"s">>, <<"b">>, <<"p">>, <<"l">>, <<"n">> }
RenderOptions ==
  { EmptyMap,
    [k \in {"templateData"} |->
       [e \in {"name", "site"} |-> IF e = "name" THEN "Cfg" ELSE "S"]] }
From == [e \in {"name", "from"} |-> IF e = "name" THEN "Bob" ELSE "@from"]
RenderCtxData == {NoData, From}
RenderCallData == {NoData, Name("Ann")}
\* Template sources of up to MaxLen tokens: an ordinary character, the
\* backtick, the backslash, an embedded expression
SourceTokens == {"H", Backtick, Backslash, "${name}"}
Sources == UNION { [1..n -> SourceTokens] : n \in 1..MaxLen }

\* Calls of pluralize
PluralTags ==
  { en, ru, Lang("p", "t"), <<"P", "T", "_", "B", "R">>,
    <<"f", "r", "-", "C", "A">>, Lang("a", "r"), Lang("c", "s"), Lang("p", "l"),
    Lang("i", "s"), Lang("z", "h"),
    Lang("x", "x"), <<" ", "X", "X", " ">>, <<"y", "y", "-", "z", "z">> }
PluralForms ==
  { << >>,
    <<Word("apple"), Word("apples")>>,
    <<Word("zero"), Word("one"), Word("two"), Word("few"), Word("many"),
      Word("other")>>,
    <<Word(""), Word("s")>>,
    <<Word("apple"), FormFn>> }

WarnTags ==
  { en, <<"P", "T", "_", "B", "R">>, <<"f", "r", "-", "C", "A">>,
    Lang("x", "x"), <<" ", "X", "X", " ">>, <<"y", "y", "-", "z", "z">> }
WarnForms == { << >>, <<Word("apple"), Word("apples")>> }

RenderObjects == [r \in {"@from"} |-> [f \in {"language_code"} |-> "en"]]
SharedKeys == { <<"m">>, <<"m", "t">> }

-----------------------------------------------------------------------------
(* The state machine.                                                      *)
(* heap holds the repository objects ever created, repository is the one   *)
(* the I18n instance refers to (this.repository), and each context keeps    *)
(* the reference it was constructed with.                                   *)

Repo == heap[repository]

InitStore ==
  /\ config = I18nConfig(EmptyMap)
  /\ heap = <<EmptyMap>>
  /\ repository = 1
  /\ keysCache = EmptyMap
  /\ ctxs = << >>
  /\ nLoads = 0
  /\ last = [op |-> "new"]
  /\ objects = NoObjects
  /\ warned = {}
  /\ warnings = << >>

Init ==
  /\ \E options \in Options : config = I18nConfig(options)
  /\ \E directory \in Directories : heap = <<loadLocales(EmptyMap, directory)>>
  /\ repository = 1
  /\ keysCache = EmptyMap
  /\ ctxs = << >>
  /\ nLoads = 0
  /\ last = [op |-> "new"]
  /\ objects = NoObjects
  /\ warned = {}
  /\ warnings = << >>

LoadLocale(languageCode, i18Data) ==
  /\ nLoads < MaxLoads
  /\ nLoads' = nLoads + 1
  /\ last' = [op |-> "loadLocale", languageCode |-> languageCode,
              data |-> i18Data, threw |-> loadLocaleThrows(i18Data),
              before |-> Repo]
  /\ heap' = IF loadLocaleThrows(i18Data) THEN heap
             ELSE [heap EXCEPT
                     ![repository] = loadLocaleRepo(Repo, languageCode, i18Data)]
  /\ keysCache' = loadLocaleCache(keysCache, languageCode, i18Data)
  /\ UNCHANGED <<config, repository, ctxs, objects, warned, warnings>>

\* resetLocale(languageCode) with a tag that is not the empty string
ResetLocaleOne(languageCode) ==
  /\ languageCode # << >>
  /\ LET full == normalizeLocale(languageCode).full
     IN /\ heap' = [heap EXCEPT
                      ![repository] = [l \in DOMAIN Repo \ {full} |-> Repo[l]]]
        /\ keysCache' = invalidate(keysCache, full)
  /\ last' = [op |-> "resetLocale", languageCode |-> languageCode]
  /\ UNCHANGED <<config, repository, ctxs, nLoads, objects, warned, warnings>>

\* resetLocale() and resetLocale(""): a new repository object
ResetLocaleAll ==
  /\ Len(heap) < MaxRepos
  /\ heap' = Append(heap, EmptyMap)
  /\ repository' = Len(heap) + 1
  /\ keysCache' = invalidate(keysCache, << >>)
  /\ last' = [op |-> "resetLocale", languageCode |-> NoTag]
  /\ UNCHANGED <<config, ctxs, nLoads, objects, warned, warnings>>

resourceKeysResult(languageCode) ==
  LET full == normalizeLocale(languageCode).full
  IN IF full \in DOMAIN keysCache THEN keysCache[full]
     ELSE getTemplateKeysRecursive(
            IF full \in DOMAIN Repo THEN Repo[full] ELSE Tree(EmptyMap), << >>)

\* resourceKeys(languageCode) as a function of the cache and the repository
\* object: the list returned and the cache afterwards
resourceKeysOf(cache, repo, languageCode) ==
  LET full == normalizeLocale(languageCode).full
  IN IF full \in DOMAIN cache THEN cache[full]
     ELSE getTemplateKeysRecursive(
            IF full \in DOMAIN repo THEN repo[full] ELSE Tree(EmptyMap), << >>)

resourceKeysCache(cache, repo, languageCode) ==
  LET full == normalizeLocale(languageCode).full
  IN [l \in DOMAIN cache \cup {full} |->
        IF l = full THEN resourceKeysOf(cache, repo, languageCode) ELSE cache[l]]

\* missingKeys with the two languages exchanged
missingKeysSwapped(cache, repo, languageOfInterest, referenceLanguage) ==
  LET interest == resourceKeysOf(cache, repo, languageOfInterest)
      reference == resourceKeysOf(resourceKeysCache(cache, repo, languageOfInterest),
                                  repo, referenceLanguage)
  IN { k \in interest : k \notin reference }

\* missingKeys(languageOfInterest, referenceLanguage): the keys of the
\* reference that the language of interest does not have
missingKeys(cache, repo, languageOfInterest, referenceLanguage) ==
  LET interest == resourceKeysOf(cache, repo, languageOfInterest)
      reference == resourceKeysOf(resourceKeysCache(cache, repo, languageOfInterest),
                                  repo, referenceLanguage)
  IN { k \in reference : k \notin interest }

\* translationProgress(languageOfInterest, referenceLanguage): the quotient
\* returned, as its numerator and denominator
translationProgress(cache, repo, languageOfInterest, referenceLanguage) ==
  LET referenceCount == Cardinality(resourceKeysOf(cache, repo, referenceLanguage))
      cached == resourceKeysCache(cache, repo, referenceLanguage)
      missingCount ==
        Cardinality(missingKeys(cached, repo, languageOfInterest, referenceLanguage))
  IN IF referenceCount = 0 THEN [num |-> 1, den |-> 1]
     ELSE [num |-> referenceCount - missingCount, den |-> referenceCount]

\* this.keysCache after translationProgress
translationProgressCache(cache, repo, languageOfInterest, referenceLanguage) ==
  LET cached == resourceKeysCache(cache, repo, referenceLanguage)
  IN IF resourceKeysOf(cache, repo, referenceLanguage) = {} THEN cached
     ELSE resourceKeysCache(
            resourceKeysCache(cached, repo, languageOfInterest), repo, referenceLanguage)

TranslationProgress(languageOfInterest, referenceLanguage) ==
  /\ keysCache' = translationProgressCache(keysCache, Repo, languageOfInterest,
                                           referenceLanguage)
  /\ last' = [op |-> "translationProgress", interest |-> languageOfInterest,
              reference |-> referenceLanguage,
              result |-> translationProgress(keysCache, Repo, languageOfInterest,
                                             referenceLanguage)]
  /\ UNCHANGED <<config, heap, repository, ctxs, nLoads, objects, warned, warnings>>

\* translationProgress(languageOfInterest): the reference is the default
TranslationProgressDefault(languageOfInterest) ==
  TranslationProgress(languageOfInterest, config.defaultLanguage)

ResourceKeysCall(languageCode) ==
  /\ LET full == normalizeLocale(languageCode).full
     IN keysCache' = [l \in DOMAIN keysCache \cup {full} |->
                        IF l = full THEN resourceKeysResult(languageCode)
                        ELSE keysCache[l]]
  /\ last' = [op |-> "resourceKeys", languageCode |-> languageCode,
              hit |-> normalizeLocale(languageCode).full \in DOMAIN keysCache,
              result |-> resourceKeysResult(languageCode)]
  /\ UNCHANGED <<config, heap, repository, ctxs, nLoads, objects, warned, warnings>>

CreateContext(languageCode, templateData) ==
  /\ Len(ctxs) < MaxCtx
  /\ ctxs' = Append(ctxs, newContext(repository, config, Repo, languageCode,
                                     templateData))
  /\ last' = [op |-> "createContext", ctx |-> Len(ctxs) + 1,
              languageCode |-> languageCode, data |-> templateData]
  /\ UNCHANGED <<config, heap, repository, keysCache, nLoads, objects, warned, warnings>>

\* context.locale(languageCode) on the context numbered i
Locale(i, languageCode) ==
  /\ i \in 1..Len(ctxs)
  /\ ctxs' = [ctxs EXCEPT
                ![i] = locale(ctxs[i], config, heap[ctxs[i].repository], languageCode)]
  /\ last' = [op |-> "locale", ctx |-> i, languageCode |-> languageCode,
              before |-> ctxs[i]]
  /\ UNCHANGED <<config, heap, repository, keysCache, nLoads, objects, warned, warnings>>

\* What the caller of t gets: the string or the error
returned(r) ==
  [ok |-> r.ok, out |-> r.out, err |-> r.err, msg |-> r.msg,
   locale |-> r.locale, key |-> r.key]

\* t that first gives the locale of its context an empty tree when the
\* repository has none
TCreatingLocale(i, resourceKey, templateData) ==
  /\ i \in 1..Len(ctxs)
  /\ LET ref == ctxs[i].repository
         r == t(ctxs[i], config, heap[ref], resourceKey, templateData, objects)
     IN /\ last' = [op |-> "t", ctx |-> i, key |-> resourceKey,
                    data |-> templateData,
                    context |-> dataContext(ctxs[i], templateData),
                    result |-> returned(r)]
        /\ objects' = r.objs
        /\ heap' = [heap EXCEPT ![ref] =
                      [l \in DOMAIN heap[ref] \cup {ctxs[i].languageCode} |->
                         IF l \in DOMAIN heap[ref] THEN heap[ref][l]
                         ELSE Tree(EmptyMap)]]
  /\ UNCHANGED <<config, repository, keysCache, ctxs, nLoads, warned, warnings>>

\* context.t(resourceKey, templateData) on the context numbered i
T(i, resourceKey, templateData) ==
  /\ i \in 1..Len(ctxs)
  /\ LET r == t(ctxs[i], config, heap[ctxs[i].repository], resourceKey,
                templateData, objects)
     IN /\ last' = [op |-> "t", ctx |-> i, key |-> resourceKey,
                    data |-> templateData,
                    context |-> dataContext(ctxs[i], templateData),
                    result |-> returned(r)]
        /\ objects' = r.objs
  /\ UNCHANGED <<config, heap, repository, keysCache, ctxs, nLoads, warned, warnings>>

\* i18n.t(languageCode, resourceKey, templateData): a context made for the
\* one call, given templateData at its construction, then t(resourceKey)
I18nT(languageCode, resourceKey, templateData) ==
  /\ LET c == newContext(repository, config, Repo, languageCode, templateData)
         r == t(c, config, Repo, resourceKey, NoData, objects)
     IN /\ last' = [op |-> "I18n.t", languageCode |-> languageCode,
                    key |-> resourceKey, data |-> templateData,
                    context |-> dataContext(c, NoData),
                    result |-> returned(r)]
        /\ objects' = r.objs
  /\ UNCHANGED <<config, heap, repository, keysCache, ctxs, nLoads, warned, warnings>>

NextStore ==
  \/ \E l \in StoreTags, d \in StoreData : LoadLocale(l, d)
  \/ \E l \in StoreTags : ResetLocaleOne(l)
  \/ ResetLocaleAll
  \/ \E l \in StoreTags : ResourceKeysCall(l)

SpecStore == InitStore /\ [][NextStore]_vars

\* The store with its coverage queries
NextProgress ==
  \/ \E l \in StoreTags, d \in ProgressData : LoadLocale(l, d)
  \/ \E l \in StoreTags : ResetLocaleOne(l)
  \/ ResetLocaleAll
  \/ \E x \in StoreTags, y \in StoreTags : TranslationProgress(x, y)
  \/ \E x \in StoreTags : TranslationProgressDefault(x)

SpecProgress == InitStore /\ [][NextProgress]_vars

Next ==
  \/ \E l \in LoadTags, d \in LoadData : LoadLocale(l, d)
  \/ \E l \in ResetTags : ResetLocaleOne(l)
  \/ ResetLocaleAll
  \/ \E l \in CtxTags, d \in CtxData : CreateContext(l, d)
  \/ \E i \in 1..MaxCtx, l \in CtxTags : Locale(i, l)
  \/ \E i \in 1..MaxCtx, k \in ResourceKeys, d \in CallData : T(i, k, d)

Spec == Init /\ [][Next]_vars

\* Every operation that reads or writes the Repository, the renders made
\* through a context and through the I18n instance
NextShared ==
  \/ \E l \in LoadTags, d \in LoadData : LoadLocale(l, d)
  \/ \E l \in ResetTags : ResetLocaleOne(l)
  \/ ResetLocaleAll
  \/ \E l \in SharedTags : CreateContext(l, NoData)
  \/ \E i \in 1..MaxCtx, l \in SharedTags : Locale(i, l)
  \/ \E i \in 1..MaxCtx, k \in SharedKeys : T(i, k, NoData)
  \/ \E l \in SharedTags, k \in SharedKeys : I18nT(l, k, Name("Ann"))

SpecShared == Init /\ [][NextShared]_vars

\* Renders of templates that read and write their data
InitRender ==
  /\ \E options \in RenderOptions : config = I18nConfig(options)
  /\ heap = <<loadLocales(EmptyMap, RenderDirectory)>>
  /\ repository = 1
  /\ keysCache = EmptyMap
  /\ ctxs = << >>
  /\ nLoads = 0
  /\ last = [op |-> "new"]
  /\ objects = RenderObjects
  /\ warned = {}
  /\ warnings = << >>

NextRender ==
  \/ \E d \in RenderCtxData : CreateContext(en, d)
  \/ \E i \in 1..MaxCtx, k \in RenderKeys, d \in RenderCallData : T(i, k, d)
  \/ \E k \in RenderKeys, d \in RenderCtxData : I18nT(en, k, d)

SpecRender == InitRender /\ [][NextRender]_vars

\* pluralize(number, forms, langCode)
Pluralize(number, forms, langCode) ==
  /\ LET norm == normalizeLang(langCode)
         base == splitHyphenFirst(norm)
         warns == pluralizeWarns(norm, base, warned)
     IN /\ warned' = IF warns THEN warned \cup {norm} ELSE warned
        /\ warnings' = IF warns THEN Append(warnings, norm) ELSE warnings
  /\ last' = [op |-> "pluralize", number |-> number, forms |-> forms,
              langCode |-> langCode,
              result |-> pluralize(number, forms, langCode)]
  /\ UNCHANGED <<config, heap, repository, keysCache, ctxs, nLoads, objects>>

\* pluralize(number, forms): langCode is "en"
PluralizeDefault(number, forms) == Pluralize(number, forms, en)

\* pluralize as a function of its arguments: one call, its arguments drawn
\* at the start
InitPlural ==
  /\ config = I18nConfig(EmptyMap)
  /\ heap = <<EmptyMap>>
  /\ repository = 1
  /\ keysCache = EmptyMap
  /\ ctxs = << >>
  /\ nLoads = 0
  /\ \E n \in 0..MaxCount, f \in PluralForms, l \in PluralTags :
       last = [op |-> "call", number |-> n, forms |-> f, langCode |-> l]
  /\ objects = NoObjects
  /\ warned = {}
  /\ warnings = << >>

NextPlural ==
  last.op = "call" /\ Pluralize(last.number, last.forms, last.langCode)

SpecPlural == InitPlural /\ [][NextPlural]_vars

\* Calls of pluralize one after the other, over the one warned set
NextWarn ==
  \/ \E n \in 0..2, f \in WarnForms, l \in WarnTags : Pluralize(n, f, l)
  \/ \E n \in 0..2, f \in WarnForms : PluralizeDefault(n, f)

SpecWarn == InitStore /\ [][NextWarn]_vars

\* One template source at a time, loaded into the empty store and rendered
NextCompile ==
  \/ \E s \in Sources : Repo = EmptyMap /\ LoadLocale(en, Obj1("k", Str(s)))
  \/ Repo # EmptyMap /\ I18nT(en, <<"k">>, Name("Ann"))

SpecCompile == InitStore /\ [][NextCompile]_vars

-----------------------------------------------------------------------------
(* Properties of the resource tree store, checked under SpecStore.         *)

RECURSIVE AllLeavesRenderers(_)
AllLeavesRenderers(value) ==
  CASE value.tag = "tree" ->
         \A k \in DOMAIN value.v : AllLeavesRenderers(value.v[k])
    [] value.tag = "seq" ->
         \A i \in 1..Len(value.v) : AllLeavesRenderers(value.v[i])
    [] OTHER -> value.tag = "fn"

\* C1: every leaf reachable from any locale tree of the Repository is a
\* Renderer; no raw unconverted value is stored as a leaf.
C1_EveryLeafIsRenderer ==
  \A l \in DOMAIN Repo : AllLeavesRenderers(Repo[l])

\* The key paths of a tree (the paths of its values that are not trees), and
\* the value a path resolves to
keyPaths(tree) == getTemplateKeysRecursive(tree, << >>)
resolve(tree, path) == reduce(tree, path)

\* The last call, when it is a loadLocale that returned onto a stored tree:
\* the tree stored before (A), the compiled incoming tree (B), the tree
\* stored now
LoadedOnto ==
  /\ last.op = "loadLocale"
  /\ ~last.threw
  /\ normalizeLocale(last.languageCode).full \in DOMAIN last.before
LoadA == last.before[normalizeLocale(last.languageCode).full]
LoadB == compileTemplates(last.data)
LoadNow == Repo[normalizeLocale(last.languageCode).full]

\* B holds a value at the path, or a value that is not a tree at one of its
\* proper prefixes
Shadowed(b, path) ==
  \/ resolve(b, path) # Undef
  \/ \E n \in 1..(Len(path) - 1) :
       resolve(b, SubSeq(path, 1, n)) \notin {Undef}
         /\ ~isPlainObject(resolve(b, SubSeq(path, 1, n)))

\* C2 as claimed: after loadLocale(L, A) then loadLocale(L, B) every key path
\* of B resolves to B's value and every key path only in A still resolves to
\* A's value.
C2_MergeKeepsEveryKey ==
  LoadedOnto =>
    /\ \A p \in keyPaths(LoadB) : resolve(LoadNow, p) = resolve(LoadB, p)
    /\ \A p \in keyPaths(LoadA) \ keyPaths(LoadB) :
         resolve(LoadNow, p) = resolve(LoadA, p)

\* C2 as amended: every key path of B resolves to B's value; a key path only
\* in A still resolves to A's value unless B holds a value at that path or a
\* value that is not a tree at one of its proper prefixes, and then the path
\* resolves as it does in B (B's value replaced A's subtree).
C2_MergeKeepsUnshadowedKeys ==
  LoadedOnto =>
    /\ \A p \in keyPaths(LoadB) : resolve(LoadNow, p) = resolve(LoadB, p)
    /\ \A p \in keyPaths(LoadA) \ keyPaths(LoadB) :
         IF Shadowed(LoadB, p)
         THEN resolve(LoadNow, p) = resolve(LoadB, p)
         ELSE resolve(LoadNow, p) = resolve(LoadA, p)

\* A second load that overrides one key path, adds another and keeps a third
\* of the tree stored before
C2_Witness ==
  /\ LoadedOnto
  /\ keyPaths(LoadA) \cap keyPaths(LoadB) # {}
  /\ keyPaths(LoadB) \ keyPaths(LoadA) # {}
  /\ \E p \in keyPaths(LoadA) \ keyPaths(LoadB) : ~Shadowed(LoadB, p)

\* The key paths of the tree now stored for a normalized tag
storedKeys(full) ==
  IF full \in DOMAIN Repo THEN keyPaths(Repo[full]) ELSE {}

\* C3: resourceKeys(L) returns exactly the key paths of the tree currently
\* stored for normalize(L), and no cache entry outlives a load or a reset of
\* its locale.
C3_KeysCacheCoherent ==
  /\ \A l \in DOMAIN keysCache : keysCache[l] = storedKeys(l)
  /\ last.op = "resourceKeys" =>
       last.result = storedKeys(normalizeLocale(last.languageCode).full)

\* resourceKeys answered from the cache, for a tree loaded after a reset of
\* every locale
C3_Witness ==
  /\ last.op = "resourceKeys"
  /\ last.hit
  /\ last.result # {}
  /\ Len(heap) > 1

-----------------------------------------------------------------------------
(* Properties of the locale resolution context, checked under Spec.        *)

\* The context the last call was made on, and the repository object it reads
LastCtx == ctxs[last.ctx]
LastRepo == heap[ctxs[last.ctx].repository]

\* The tag the last createContext or locale call resolves
Requested ==
  IF last.languageCode # NoTag THEN last.languageCode ELSE config.defaultLanguage

Resolving ==
  \/ last.op = "createContext"
  \/ last.op = "locale" /\ last.languageCode # NoTag

\* C4: the effective locale after resolving a tag t is normalize(t) if that is
\* a key of the Repository, else the base of t if that is a key, else the
\* configured default language.
C4_EffectiveLocale ==
  Resolving =>
    LastCtx.languageCode =
      LET n == normalizeLocale(Requested)
      IN IF n.full \in DOMAIN LastRepo THEN n.full
         ELSE IF n.base \in DOMAIN LastRepo THEN n.base
         ELSE config.defaultLanguage

\* C5: every ingress point behaves for a tag t as it does for normalize(t):
\* loading, creating a context, and changing a context's locale.
C5_NormalizedAtEveryIngress ==
  /\ (last.op = "loadLocale" /\ ~last.threw) =>
       Repo = loadLocaleRepo(last.before,
                             normalizeLocale(last.languageCode).full, last.data)
  /\ last.op = "createContext" =>
       LastCtx = newContext(LastCtx.repository, config, LastRepo,
                            normalizeLocale(last.languageCode).full, last.data)
  /\ last.op = "locale" =>
       LastCtx = locale(last.before, config, LastRepo,
                        normalizeLocale(last.languageCode).full)

\* The renderer a locale's tree holds at the key of the last render, if any
Holds(languageCode) ==
  getTemplate(LastRepo, languageCode, last.key).tag = "fn"
Rendered(languageCode) ==
  LET r == callRenderer(getTemplate(LastRepo, languageCode, last.key),
                        dataContext(LastCtx, last.data), objects)
  IN [ok |-> r.ok, out |-> r.out, err |-> r.err]
Returned == [ok |-> last.result.ok, out |-> last.result.out, err |-> last.result.err]
RawKey == [ok |-> TRUE, out |-> joinDots(last.key), err |-> "none"]

\* C6: if the tree of the effective full locale holds a Renderer at the key,
\* render returns the output of exactly that Renderer, whatever the base and
\* the default locale define and whatever the flags are.
C6_FallbackMonotonic ==
  (last.op = "t" /\ Holds(LastCtx.languageCode)) =>
    Returned = Rendered(LastCtx.languageCode)

\* A render where the full, the base and the default locale each hold a
\* Renderer at the key, and the base's gives another string than the full's
C6_Witness ==
  /\ last.op = "t"
  /\ LastCtx.languageCode # LastCtx.shortLanguageCode
  /\ Holds(LastCtx.languageCode)
  /\ Holds(LastCtx.shortLanguageCode)
  /\ Holds(config.defaultLanguage)
  /\ Rendered(LastCtx.shortLanguageCode) # Rendered(LastCtx.languageCode)
  /\ last.result.ok

\* C7: if neither the full nor the base locale yields a Renderer at the key
\* and defaultLanguageOnMissing is set, render looks the key up under the
\* default locale and returns the output of the Renderer found there.
C7_FallsThroughToDefault ==
  ( /\ last.op = "t"
    /\ ~Holds(LastCtx.languageCode)
    /\ ~Holds(LastCtx.shortLanguageCode)
    /\ config.defaultLanguageOnMissing
    /\ Holds(config.defaultLanguage) ) =>
    Returned = Rendered(config.defaultLanguage)

\* Whether the fallback chain yields a Renderer for the key of the last render
ChainYields ==
  \/ Holds(LastCtx.languageCode)
  \/ Holds(LastCtx.shortLanguageCode)
  \/ config.defaultLanguageOnMissing /\ Holds(config.defaultLanguage)

\* C8: if the fallback chain yields no Renderer and allowMissing is set, render
\* returns the raw key and raises no error; a key-not-found error is raised
\* only when allowMissing is not set.
C8_MissingKeyTolerated ==
  last.op = "t" =>
    /\ (~ChainYields /\ config.allowMissing) => Returned = RawKey
    /\ last.result.err = "notfound" => ~config.allowMissing

\* The key of the last render is absent from a locale
Absent(languageCode) ==
  getTemplate(LastRepo, languageCode, last.key) = Undef

\* C9: with defaultLanguageOnMissing set, rendering a key absent from the
\* effective locale, its base and the default locale returns the raw key,
\* whatever allowMissing was given.
C9_FlagComposition ==
  ( /\ last.op = "t"
    /\ config.defaultLanguageOnMissing
    /\ Absent(LastCtx.languageCode)
    /\ Absent(LastCtx.shortLanguageCode)
    /\ Absent(config.defaultLanguage) ) =>
    Returned = RawKey

\* C10: every context created from the instance reads the repository object
\* the instance currently holds.
C10_OneSharedRepository ==
  \A i \in 1..Len(ctxs) : ctxs[i].repository = repository

-----------------------------------------------------------------------------
(* Failed loads, checked under SpecStore.                                  *)

\* C11: a loadLocale whose data has a root that is not an object (a string,
\* a number, an array, null, undefined) throws, and a loadLocale that throws
\* leaves the Repository, every locale tree in it and the key cache exactly
\* as they were before the call.
C11_FailedLoadChangesNothing ==
  [][ last'.op = "loadLocale" =>
        /\ ~isPlainObject(last'.data) => last'.threw
        /\ last'.threw =>
             (heap' = heap /\ repository' = repository /\ keysCache' = keysCache) ]_vars

\* A failed load of a locale that has a tree and a cached key list
C11_Witness ==
  /\ last.op = "loadLocale" /\ last.threw /\ ~isPlainObject(last.data)
  /\ normalizeLocale(last.languageCode).full \in DOMAIN Repo
  /\ normalizeLocale(last.languageCode).full \in DOMAIN keysCache

-----------------------------------------------------------------------------
(* Translation progress, checked under SpecStore.                          *)

ProgressX == storedKeys(normalizeLocale(last.interest).full)
ProgressY == storedKeys(normalizeLocale(last.reference).full)

\* C19: translationProgress(X, Y) is (referenceKeyCount - missingKeyCount) /
\* referenceKeyCount over the keys the store holds, it lies in [0, 1], it is
\* 1 when X and Y are the same locale and 1 when Y has no keys.
C19_ProgressBounds ==
  last.op = "translationProgress" =>
    /\ last.result.den > 0
    /\ 0 <= last.result.num /\ last.result.num <= last.result.den
    /\ ProgressY # {} =>
         last.result.num * Cardinality(ProgressY)
           = last.result.den * (Cardinality(ProgressY) - Cardinality(ProgressY \ ProgressX))
    /\ normalizeLocale(last.interest).full = normalizeLocale(last.reference).full
         => last.result.num = last.result.den
    /\ ProgressY = {} => last.result.num = last.result.den

\* A progress strictly between 0 and 1, X holding a key the reference lacks
C19_Witness ==
  /\ last.op = "translationProgress"
  /\ 0 < last.result.num /\ last.result.num < last.result.den
  /\ ProgressX \ ProgressY # {}

-----------------------------------------------------------------------------
(* Rendering and the shared Repository, checked under SpecShared.          *)

\* C12: no call of context.t, context.locale, I18n.t or createContext,
\* whether it returns or throws, changes the Repository (the repository
\* object the instance refers to, the set of its locales and every tree);
\* only loadLocale and resetLocale change it.
C12_RenderingReadOnly ==
  [][ (heap' # heap \/ repository' # repository)
        => last'.op \in {"loadLocale", "resetLocale"} ]_vars

\* A render that threw, on a Repository that holds trees
C12_Witness ==
  /\ last.op \in {"t", "I18n.t"}
  /\ ~last.result.ok
  /\ Repo # EmptyMap

-----------------------------------------------------------------------------
(* The data context of a render, checked under SpecRender.                 *)

Render == {"t", "I18n.t"}

\* C13: what a template expression does to an entry of its data context
\* during one render (rebinding a top-level entry, writing a field of an
\* object-valued entry such as `from`) stays inside that render: the objects
\* the data refers to, the template data of every context and of the
\* configuration are after the render as they were before it.
C13_RenderIsolation ==
  [][ last'.op \in Render =>
        (objects' = objects /\ ctxs' = ctxs /\ config' = config) ]_vars

\* C14: a render whose template expression throws, or runs past the time
\* budget, throws one template-execution error that carries the description
\* of the failure and returns no string, and leaves everything a later
\* render reads as it was before.
C14_RenderFailureAllOrNothing ==
  [][ (last'.op \in Render /\ ~last'.result.ok /\ last'.result.err # "notfound") =>
        /\ last'.result.err = "exec"
        /\ last'.result.msg # "none"
        /\ last'.result.out = << >>
        /\ objects' = objects /\ ctxs' = ctxs /\ config' = config
        /\ heap' = heap /\ repository' = repository ]_vars

\* The entry a renderer gets under the name k when the three levels of data
\* are cfg, ctx and call: the per-call one, else the context-level one, else
\* the configuration-level one; a function entry arrives bound
Passed(v) == IF v = "pluralize" THEN "bound pluralize" ELSE v
Precedence(cfg, ctx, call) ==
  [k \in DOMAIN cfg \cup DOMAIN ctx \cup DOMAIN call |->
     IF k \in DOMAIN call THEN call[k]
     ELSE IF k \in DOMAIN ctx THEN ctx[k]
     ELSE cfg[k]]
Received(cfg, ctx, call) ==
  [k \in DOMAIN Precedence(cfg, ctx, call) |-> Passed(Precedence(cfg, ctx, call)[k])]

C16_AtCreation ==
  last.op = "createContext" =>
    ctxs[last.ctx].templateData = Precedence(config.templateData, last.data, NoData)
C16_AtRender ==
  /\ last.op = "t" =>
       last.context = Received(NoData, ctxs[last.ctx].templateData, last.data)
  /\ last.op = "I18n.t" =>
       last.context = Received(config.templateData, last.data, NoData)
C16_SameDataAgain ==
  /\ config' = config
  /\ \A i \in 1..Len(ctxs) : ctxs'[i].templateData = ctxs[i].templateData

\* C16: the data context a renderer receives is the configuration-level
\* template data, overridden by the context-level data given when the
\* context was created, overridden by the per-call data; an entry present at
\* one level only arrives as it is (a function entry bound to the context),
\* and no render changes the configuration-level or context-level data the
\* next render starts from.
C16_DataPrecedence ==
  [](C16_AtCreation /\ C16_AtRender) /\ [][C16_SameDataAgain]_vars

\* A render where all three levels hold `name` and one level only holds
\* `site`, `from`
C16_Witness ==
  /\ last.op = "t"
  /\ "name" \in DOMAIN config.templateData
  /\ ctxs[last.ctx].templateData["name"] = "Bob"
  /\ "name" \in DOMAIN last.data
  /\ last.result.ok /\ last.result.out = <<"H", "Ann">>
  /\ last.context["site"] = "S" /\ last.context["from"] = "@from"

-----------------------------------------------------------------------------
(* Literal text of a template, checked under SpecCompile.                  *)

\* The source with the value of `name` in place of each ${name}
Substituted(s, data) ==
  [i \in 1..Len(s) |-> IF s[i] = "${name}" THEN data["name"] ELSE s[i]]

\* C15: every template source compiles, and its render is the source with
\* each embedded expression replaced by its value: the literal text comes
\* out character for character, a backtick, a backslash and a backslash
\* before a backtick included.
C15_LiteralRoundTrip ==
  /\ last.op = "loadLocale" => ~last.threw
  /\ last.op = "I18n.t" =>
       /\ last.result.ok
       /\ last.result.out = Substituted(Repo[en].v["k"].v.src, last.data)

-----------------------------------------------------------------------------
(* pluralize, checked under SpecPlural and SpecWarn.                       *)

PluralNorm == normalizeLang(last.langCode)
PluralBase == splitHyphenFirst(PluralNorm)
Registered(tag) == \E ruleKey \in RuleKeys : tag \in mapping[ruleKey]
FamilyOf(tag) == CHOOSE ruleKey \in RuleKeys : tag \in mapping[ruleKey]

\* The rule family of the call: that of the normalized full tag, else that
\* of its base tag, else the English one
PluralFamily ==
  IF Registered(PluralNorm) THEN FamilyOf(PluralNorm)
  ELSE IF Registered(PluralBase) THEN FamilyOf(PluralBase)
  ELSE "english"

\* The form the call selects from a list that is not empty
PluralForm ==
  LET i == pluralRules(PluralFamily, last.number)
  IN IF i < Len(last.forms) THEN last.forms[i + 1] ELSE last.forms[Len(last.forms)]

Literal(forms) == \A i \in 1..Len(forms) : ~forms[i].fn
Words(forms) == \A i \in 1..Len(forms) : ~forms[i].fn /\ forms[i].text # ""

PluralExamples ==
  /\ (last.langCode = en /\ last.forms = <<Word("apple"), Word("apples")>>) =>
       /\ last.number = 1 => last.result = <<1, " ", "apple">>
       /\ last.number = 5 => last.result = <<5, " ", "apples">>
  /\ (PluralNorm = <<"p", "t", "-", "b", "r">> /\ last.number = 0) =>
       PluralFamily = "french" /\ pluralRules(PluralFamily, 0) = 0
  /\ (PluralNorm = Lang("p", "t") /\ last.number = 0) =>
       PluralFamily = "english" /\ pluralRules(PluralFamily, 0) = 1

\* C17: for every language tag, count n >= 0 and list of literal forms that
\* is not empty, pluralize returns "<n> <form>", form being forms[i] when i
\* is less than the length and the last form otherwise, i the index the rule
\* family of the normalized full tag (else of its base tag, else the English
\* family) gives for n; with no form the result is the count stringified.
C17_PluralizeResult ==
  (last.op = "pluralize" /\ Literal(last.forms)) =>
    /\ last.forms # << >> => last.result = <<last.number, " ", PluralForm.text>>
    /\ last.forms = << >> => last.result = <<last.number>>
    /\ PluralExamples

\* What holds of every call: the same for the lists whose forms are words
\* that are not empty, and the count stringified alone when the selected
\* form is the empty string.
PluralizeResultOfWords ==
  last.op = "pluralize" =>
    /\ (Words(last.forms) /\ last.forms # << >>) =>
         last.result = <<last.number, " ", PluralForm.text>>
    /\ last.forms = << >> => last.result = <<last.number>>
    /\ (last.forms # << >> /\ ~PluralForm.fn /\ PluralForm.text = "") =>
         last.result = <<last.number>>
    /\ Literal(last.forms) => PluralExamples

Unresolved(tag) ==
  ~Registered(normalizeLang(tag)) /\ ~Registered(splitHyphenFirst(normalizeLang(tag)))

Occurrences(seq, x) == Cardinality({ i \in 1..Len(seq) : seq[i] = x })

\* A call writes one warning when its tag is unresolved and no warning has
\* been written for that tag, and none otherwise
WarnsAtFirstCall ==
  last'.op = "pluralize" =>
    LET norm == normalizeLang(last'.langCode)
    IN IF Unresolved(last'.langCode) /\ Occurrences(warnings, norm) = 0
       THEN warnings' = Append(warnings, norm)
       ELSE warnings' = warnings

\* C18: over any sequence of pluralize calls a warning is written at most
\* once for each unresolved tag (tags taken as normalized), at the first call
\* with it, never for a tag that resolves by its full form or its base, and
\* the call with an unresolved tag returns the string the English family
\* selects.
C18_WarnsOncePerTag ==
  /\ [](/\ \A i \in 1..Len(warnings) :
             Unresolved(warnings[i]) /\ Occurrences(warnings, warnings[i]) = 1
        /\ (last.op = "pluralize" /\ Unresolved(last.langCode)) =>
             /\ Occurrences(warnings, normalizeLang(last.langCode)) = 1
             /\ last.result = pluralize(last.number, last.forms, en))
  /\ [][WarnsAtFirstCall]_vars

\* A later call with a tag already warned of, written differently, after
\* a warning for another unresolved tag
C18_Witness ==
  /\ last.op = "pluralize"
  /\ last.langCode = <<" ", "X", "X", " ">>
  /\ warnings = << Lang("x", "x"), <<"y", "y", "-", "z", "z">> >>

\* C20: for `ar` the rule gives 0, 1, 2 for the counts 0, 1, 2 and an index
\* in 0..5 for every count, and each of the six indices, the sixth (5)
\* among them, is given for some count: every form of a list of six is the
\* form of the result for some count.
C20_ArabicSixForms ==
  (last.op = "pluralize" /\ langToRule(PluralNorm) = "arabic") =>
    /\ \A n \in 0..MaxArabic :
         /\ pluralRules("arabic", n) \in 0..5
         /\ n < 3 => pluralRules("arabic", n) = n
    /\ Len(last.forms) = 6 =>
         \A j \in 1..6 :
           \E n \in 0..MaxArabic :
             pluralize(n, last.forms, last.langCode) = <<n, " ", last.forms[j].text>>

====
